---- MODULE Spec2Model ----
(***************************************************************************)
(* Model of the two single-file Flask demos of the repository:             *)
(*   variant 1 = src/flask.py   (pipelines_cache, get_pipeline, index)     *)
(*   variant 2 = src/flask2.py  (pipelines, MODEL_CHOICES, get_pipeline,   *)
(*                               index with try/except)                    *)
(* A request is a worker slot walking through the handler; the steps are   *)
(* cut at the accesses to the shared dictionaries and at the external      *)
(* calls (pipeline construction, inference), which is where the threaded   *)
(* development server can interleave two handlers.                         *)
(* Strings that the code trims or splits are sequences of symbols; task    *)
(* identifiers, which are only compared and used as keys, are atoms.       *)
(***************************************************************************)
EXTENDS Integers, Sequences, FiniteSets, TLC

\* Number of handler threads that may be inside index() at the same time.
MaxInflight == 2

VARIABLES
    variants,        \* which program(s) are running: subset of {1, 2}
    pipelines_cache, \* flask.py:12   dict task -> pipeline instance
    pipelines,       \* flask2.py:10  dict task -> pipeline instance
    MODEL_CHOICES,   \* flask2.py:13  dict task -> model name
    loads,           \* instrumentation: constructions completed, per variant and task
    req,             \* per worker: the handler's locals and position
    before           \* instrumentation: the shared dictionaries as they were when the
                     \* request in flight was taken (requests one after another)

vars == <<variants, pipelines_cache, pipelines, MODEL_CHOICES, loads, req, before>>

Workers == 1..MaxInflight

----------------------------------------------------------------------------
\* Values

NoneV == "<None>"

SENTIMENT == "sentiment-analysis"
SUMMARIZATION == "summarization"
ZEROSHOT == "zero-shot-classification"

Tasks == {SENTIMENT, SUMMARIZATION, ZEROSHOT}

\* flask.py:19,22,25 and flask2.py:14,16,18: the default model of each task
DefaultModel(task) ==
    CASE task = SENTIMENT -> <<"distilbert-base-uncased-finetuned-sst-2-english">>
      [] task = SUMMARIZATION -> <<"sshleifer/distilbart-cnn-12-6">>
      [] task = ZEROSHOT -> <<"facebook/bart-large-mnli">>

EmptyDict == [k \in {} |-> <<>>]

\* d[k] = v of a Python dict
DictSet(d, k, v) == [x \in (DOMAIN d) \cup {k} |-> IF x = k THEN v ELSE d[x]]

\* d.get(k) of a Python dict: None when the key is absent
DictGet(d, k) == IF k \in DOMAIN d THEN d[k] ELSE <<>>

\* "no pipeline object"
NoInst == [task |-> NoneV, model |-> <<>>, id |-> 0]

\* the object transformers.pipeline(task, model=model) returns; id tells apart
\* two objects constructed for the same task
NewInst(task, model, n) == [task |-> task, model |-> model, id |-> n]

NoCall == [conv |-> "none", inst |-> NoInst, text |-> <<>>, labels |-> <<>>,
           max_length |-> 0, min_length |-> 0, do_sample |-> FALSE]

----------------------------------------------------------------------------
\* String helpers (str.strip, str.split(","), the label list comprehension)

IsSpace(c) == c = " "

RECURSIVE LStrip(_)
LStrip(s) == IF s # <<>> /\ IsSpace(Head(s)) THEN LStrip(Tail(s)) ELSE s

RECURSIVE RStrip(_)
RStrip(s) ==
    IF s # <<>> /\ IsSpace(s[Len(s)]) THEN RStrip(SubSeq(s, 1, Len(s) - 1)) ELSE s

Strip(s) == RStrip(LStrip(s))

\* s.split(","): always at least one piece
RECURSIVE SplitComma(_, _, _)
SplitComma(s, cur, acc) ==
    IF s = <<>> THEN Append(acc, cur)
    ELSE IF Head(s) = "," THEN SplitComma(Tail(s), <<>>, Append(acc, cur))
    ELSE SplitComma(Tail(s), Append(cur, Head(s)), acc)

Split(s) == SplitComma(s, <<>>, <<>>)

RECURSIVE StripNonEmpty(_)
StripNonEmpty(pieces) ==
    IF pieces = <<>> THEN <<>>
    ELSE IF Strip(Head(pieces)) # <<>>
         THEN <<Strip(Head(pieces))>> \o StripNonEmpty(Tail(pieces))
         ELSE StripNonEmpty(Tail(pieces))

RECURSIVE KeepNonEmpty(_)
KeepNonEmpty(pieces) ==
    IF pieces = <<>> THEN <<>>
    ELSE IF Strip(Head(pieces)) # <<>>
         THEN <<Head(pieces)>> \o KeepNonEmpty(Tail(pieces))
         ELSE KeepNonEmpty(Tail(pieces))

\* the comprehension without the strip of the kept piece:
\* [l for l in candidate_labels.split(",") if l.strip()]
ParseLabelsUntrimmed(candidate_labels) == KeepNonEmpty(Split(candidate_labels))

\* [l.strip() for l in candidate_labels.split(",") if l.strip()]
ParseLabels(candidate_labels) == StripNonEmpty(Split(candidate_labels))

\* str + list of Python: only str + str is defined
PyAddStr(a, b) ==
    IF a.ty = "str" /\ b.ty = "str"
    THEN [ok |-> TRUE, ty |-> "str", parts |-> a.parts \o b.parts]
    ELSE [ok |-> FALSE, ty |-> "TypeError", parts |-> <<>>]

----------------------------------------------------------------------------
\* Exceptions

NoExc == "none"

\* raised by the external library (import, construction, inference)
External == {"ImportError", "LoadError", "InferenceError"}

----------------------------------------------------------------------------
\* Form inputs a client may send

TaskInputs == Tasks \cup {"translation", NoneV, ""}

TextInputs == {<<>>, <<" ">>, <<"a">>, <<" ", "a", " ">>}

LabelInputs ==
    {<<>>, <<" ">>, <<" ", ",", " ">>, <<"a">>, <<"a", ",", "b">>,
     <<" ", "a", " ", ",", "b">>, <<"a", ",", "a">>}

OverrideInputs == {<<>>, <<" ">>, <<"M">>, <<" ", "M">>}

Methods == {"GET", "POST"}

----------------------------------------------------------------------------
\* The handler's locals

Idle ==
    [app |-> 0, pc |-> "idle", method |-> "GET", task |-> NoneV,
     input_text |-> <<>>, candidate_labels |-> <<>>, model_override |-> <<>>,
     model |-> <<>>, p |-> NoInst, nlp |-> NoInst,
     exc |-> NoExc, crash |-> NoExc, result |-> NoneV, error |-> <<>>,
     built |-> 0, calls |-> 0, call |-> NoCall]

\* the pipeline dictionary of a variant
Cache(app) == IF app = 1 THEN pipelines_cache ELSE pipelines

\* the arguments index() passes to nlp for a task
\* flask.py:43,45,48 and flask2.py:149,152,157
CallFor(app, inst, task, input_text, labels) ==
    CASE task = SENTIMENT ->
           [NoCall EXCEPT !.conv = "text", !.inst = inst, !.text = input_text]
      [] task = SUMMARIZATION ->
           [NoCall EXCEPT !.conv = "bounded", !.inst = inst, !.text = input_text,
                          !.max_length = IF app = 1 THEN 80 ELSE 120,
                          !.min_length = 20, !.do_sample = FALSE]
      [] task = ZEROSHOT ->
           [NoCall EXCEPT !.conv = "labels", !.inst = inst, !.text = input_text,
                          !.labels = labels]

\* a handler raises exception e inside the try block of flask2.py:140
Raise2(s, e) == req' = [req EXCEPT ![s].exc = e, ![s].pc = "except"]

\* an exception leaves index(): the framework answers with a server error
Escape(s, e) ==
    req' = [req EXCEPT ![s].exc = IF req[s].exc = NoExc THEN e ELSE req[s].exc,
                       ![s].crash = e, ![s].pc = "done"]

----------------------------------------------------------------------------
\* Variant 2: src/flask2.py

\* index() of flask2.py writing the override into the table before the
\* empty-text check
Index2BeginOverrideFirst(s, method, ftask, ftext, flabels, fover) ==
    /\ req[s].pc = "idle"
    /\ 2 \in variants
    /\ LET post == method = "POST"
           selected_task == IF post /\ ftask \notin {NoneV, ""} THEN ftask ELSE SENTIMENT
           input_text == IF post THEN Strip(ftext) ELSE <<>>
           candidate_labels == IF post THEN Strip(flabels) ELSE <<>>
           model_override == IF post THEN Strip(fover) ELSE <<>>
           r == [Idle EXCEPT !.app = 2, !.method = method, !.task = selected_task,
                             !.input_text = input_text,
                             !.candidate_labels = candidate_labels,
                             !.model_override = model_override]
       IN /\ req' = [req EXCEPT ![s] =
                       IF ~post THEN [r EXCEPT !.pc = "done"]
                       ELSE IF input_text = <<>>
                            THEN [r EXCEPT !.pc = "done",
                                           !.error = <<"Please provide some input text.">>]
                            ELSE [r EXCEPT !.pc = "override"]]
          /\ MODEL_CHOICES' = IF model_override # <<>>
                              THEN DictSet(MODEL_CHOICES, selected_task, model_override)
                              ELSE MODEL_CHOICES
    /\ UNCHANGED <<variants, pipelines_cache, pipelines, loads>>

\* index(), lines 124-139: defaults, form parsing, the empty-text check
Index2Begin(s, method, ftask, ftext, flabels, fover) ==
    /\ req[s].pc = "idle"
    /\ 2 \in variants
    /\ LET post == method = "POST"
           selected_task == IF post /\ ftask \notin {NoneV, ""} THEN ftask ELSE SENTIMENT
           input_text == IF post THEN Strip(ftext) ELSE <<>>
           candidate_labels == IF post THEN Strip(flabels) ELSE <<>>
           model_override == IF post THEN Strip(fover) ELSE <<>>
           r == [Idle EXCEPT !.app = 2, !.method = method, !.task = selected_task,
                             !.input_text = input_text,
                             !.candidate_labels = candidate_labels,
                             !.model_override = model_override]
       IN req' = [req EXCEPT ![s] =
                    IF ~post THEN [r EXCEPT !.pc = "done"]
                    ELSE IF input_text = <<>>
                         THEN [r EXCEPT !.pc = "done",
                                        !.error = <<"Please provide some input text.">>]
                         ELSE [r EXCEPT !.pc = "override"]]
    /\ UNCHANGED <<variants, pipelines_cache, pipelines, MODEL_CHOICES, loads>>

\* index() of flask2.py with the override kept out of the shared table
Index2OverrideNotWritten(s) ==
    /\ req[s].pc = "override" /\ req[s].app = 2
    /\ req' = [req EXCEPT ![s].pc = "check"]
    /\ UNCHANGED <<variants, before, pipelines_cache, pipelines, MODEL_CHOICES, loads>>

\* index() of flask2.py writing the override under the default task
Index2OverrideWrongKey(s) ==
    /\ req[s].pc = "override" /\ req[s].app = 2
    /\ MODEL_CHOICES' = IF req[s].model_override # <<>>
                        THEN DictSet(MODEL_CHOICES, SENTIMENT, req[s].model_override)
                        ELSE MODEL_CHOICES
    /\ req' = [req EXCEPT ![s].pc = "check"]
    /\ UNCHANGED <<variants, before, pipelines_cache, pipelines, loads>>

\* index(), lines 142-144: the override is written into the shared table
Index2Override(s) ==
    /\ req[s].pc = "override" /\ req[s].app = 2
    /\ MODEL_CHOICES' = IF req[s].model_override # <<>>
                        THEN DictSet(MODEL_CHOICES, req[s].task, req[s].model_override)
                        ELSE MODEL_CHOICES
    /\ req' = [req EXCEPT ![s].pc = "check"]
    /\ UNCHANGED <<variants, before, pipelines_cache, pipelines, loads>>

\* get_pipeline() of flask2.py with the cache looked up by task and override:
\* a request that carries an override never hits
GetPipeline2CheckOverrideMiss(s) ==
    /\ req[s].pc = "check" /\ req[s].app = 2
    /\ \/ Raise2(s, "ImportError")
       \/ req' = [req EXCEPT ![s] =
                    IF req[s].task \in DOMAIN pipelines /\ req[s].model_override = <<>>
                    THEN [req[s] EXCEPT !.nlp = pipelines[req[s].task], !.pc = "run"]
                    ELSE [req[s] EXCEPT !.pc = "lookup"]]
    /\ UNCHANGED <<variants, before, pipelines_cache, pipelines, MODEL_CHOICES, loads>>

\* get_pipeline(), lines 23-25: the import, then the cache lookup
GetPipeline2Check(s) ==
    /\ req[s].pc = "check" /\ req[s].app = 2
    /\ \/ Raise2(s, "ImportError")
       \/ req' = [req EXCEPT ![s] =
                    IF req[s].task \in DOMAIN pipelines
                    THEN [req[s] EXCEPT !.nlp = pipelines[req[s].task], !.pc = "run"]
                    ELSE [req[s] EXCEPT !.pc = "lookup"]]
    /\ UNCHANGED <<variants, before, pipelines_cache, pipelines, MODEL_CHOICES, loads>>

\* get_pipeline(), lines 26-28: the model of the task, or ValueError
GetPipeline2Lookup(s) ==
    /\ req[s].pc = "lookup" /\ req[s].app = 2
    /\ LET model == DictGet(MODEL_CHOICES, req[s].task)
       IN IF model = <<>>
          THEN Raise2(s, "UnknownTask")
          ELSE req' = [req EXCEPT ![s].model = model, ![s].pc = "load"]
    /\ UNCHANGED <<variants, before, pipelines_cache, pipelines, MODEL_CHOICES, loads>>

\* get_pipeline() of flask2.py constructing again after a failed construction
GetPipeline2LoadRetry(s) ==
    /\ req[s].pc = "load" /\ req[s].app = 2
    /\ LET task == req[s].task IN
       IF task \in Tasks
       THEN \/ /\ loads' = [loads EXCEPT ![2][task] = @ + 1]
               /\ req' = [req EXCEPT
                            ![s].p = NewInst(task, req[s].model, loads[2][task] + 1),
                            ![s].built = @ + 1, ![s].pc = "store"]
            \/ /\ req' = [req EXCEPT ![s].built = @ + 1,
                                     ![s].exc = IF req[s].built = 0 THEN NoExc
                                                ELSE "LoadError",
                                     ![s].pc = IF req[s].built = 0 THEN "load"
                                               ELSE "except"]
               /\ UNCHANGED loads
       ELSE Raise2(s, "UnsupportedTaskLoad") /\ UNCHANGED loads
    /\ UNCHANGED <<variants, before, pipelines_cache, pipelines, MODEL_CHOICES>>

\* get_pipeline() of flask2.py without the else branch of lines 38-39: any
\* task that has a model in the table is constructed
GetPipeline2LoadAnyTask(s) ==
    /\ req[s].pc = "load" /\ req[s].app = 2
    /\ LET task == req[s].task IN
       IF task \in Tasks
       THEN \/ /\ loads' = [loads EXCEPT ![2][task] = @ + 1]
               /\ req' = [req EXCEPT
                            ![s].p = NewInst(task, req[s].model, loads[2][task] + 1),
                            ![s].built = @ + 1, ![s].pc = "store"]
            \/ /\ req' = [req EXCEPT ![s].built = @ + 1, ![s].exc = "LoadError",
                                     ![s].pc = "except"]
               /\ UNCHANGED loads
       ELSE /\ req' = [req EXCEPT ![s].p = NewInst(task, req[s].model, 1),
                                  ![s].built = @ + 1, ![s].pc = "store"]
            /\ UNCHANGED loads
    /\ UNCHANGED <<variants, before, pipelines_cache, pipelines, MODEL_CHOICES>>

\* get_pipeline(), lines 31-42: construction; a failure is logged and re-raised
GetPipeline2Load(s) ==
    /\ req[s].pc = "load" /\ req[s].app = 2
    /\ LET task == req[s].task IN
       IF task \in Tasks
       THEN \/ /\ loads' = [loads EXCEPT ![2][task] = @ + 1]
               /\ req' = [req EXCEPT
                            ![s].p = NewInst(task, req[s].model, loads[2][task] + 1),
                            ![s].built = @ + 1, ![s].pc = "store"]
            \/ /\ req' = [req EXCEPT ![s].built = @ + 1, ![s].exc = "LoadError",
                                     ![s].pc = "except"]
               /\ UNCHANGED loads
       ELSE Raise2(s, "UnsupportedTaskLoad") /\ UNCHANGED loads
    /\ UNCHANGED <<variants, before, pipelines_cache, pipelines, MODEL_CHOICES>>

\* get_pipeline() of flask2.py storing with setdefault: the first stored
\* instance stays, the caller still gets its own
GetPipeline2StoreKeepFirst(s) ==
    /\ req[s].pc = "store" /\ req[s].app = 2
    /\ pipelines' = IF req[s].task \in DOMAIN pipelines THEN pipelines
                    ELSE DictSet(pipelines, req[s].task, req[s].p)
    /\ req' = [req EXCEPT ![s].nlp = req[s].p, ![s].pc = "run"]
    /\ UNCHANGED <<variants, before, pipelines_cache, MODEL_CHOICES, loads>>

\* get_pipeline(), lines 43-45: store under the task and return
GetPipeline2Store(s) ==
    /\ req[s].pc = "store" /\ req[s].app = 2
    /\ pipelines' = DictSet(pipelines, req[s].task, req[s].p)
    /\ req' = [req EXCEPT ![s].nlp = req[s].p, ![s].pc = "run"]
    /\ UNCHANGED <<variants, before, pipelines_cache, MODEL_CHOICES, loads>>

\* index() of flask2.py without the summarization branch of lines 150-152
Index2RunNoSummarization(s) ==
    /\ req[s].pc = "run" /\ req[s].app = 2
    /\ LET task == req[s].task
           labels == ParseLabels(req[s].candidate_labels)
           call == CallFor(2, req[s].nlp, task, req[s].input_text, labels)
       IN IF task \notin {SENTIMENT, ZEROSHOT} THEN Raise2(s, "UnsupportedTask")
          ELSE IF task = ZEROSHOT /\ labels = <<>> THEN Raise2(s, "NoLabels")
          ELSE \/ req' = [req EXCEPT ![s].call = call, ![s].calls = @ + 1,
                                     ![s].result = "out", ![s].pc = "done"]
               \/ req' = [req EXCEPT ![s].call = call, ![s].calls = @ + 1,
                                     ![s].exc = "InferenceError", ![s].pc = "except"]
    /\ UNCHANGED <<variants, before, pipelines_cache, pipelines, MODEL_CHOICES, loads>>

\* index(), lines 148-161: the call by task
Index2Run(s) ==
    /\ req[s].pc = "run" /\ req[s].app = 2
    /\ LET task == req[s].task
           labels == ParseLabels(req[s].candidate_labels)
           call == CallFor(2, req[s].nlp, task, req[s].input_text, labels)
       IN IF task \notin Tasks THEN Raise2(s, "UnsupportedTask")
          ELSE IF task = ZEROSHOT /\ labels = <<>> THEN Raise2(s, "NoLabels")
          ELSE \/ req' = [req EXCEPT ![s].call = call, ![s].calls = @ + 1,
                                     ![s].result = "out", ![s].pc = "done"]
               \/ req' = [req EXCEPT ![s].call = call, ![s].calls = @ + 1,
                                     ![s].exc = "InferenceError", ![s].pc = "except"]
    /\ UNCHANGED <<variants, before, pipelines_cache, pipelines, MODEL_CHOICES, loads>>

\* index(), lines 162-164: the handler of the try block. The error text is
\* str(e) + "\n\n" + <list of the last trace lines>.
Index2Except(s) ==
    /\ req[s].pc = "except" /\ req[s].app = 2
    /\ LET msg == [ok |-> TRUE, ty |-> "str", parts |-> <<req[s].exc>>]
           sep == [ok |-> TRUE, ty |-> "str", parts |-> <<"\n\n">>]
           tail == [ok |-> TRUE, ty |-> "list", parts |-> <<"trace">>]
           text == PyAddStr(PyAddStr(msg, sep), tail)
       IN IF text.ok
          THEN req' = [req EXCEPT ![s].error = text.parts, ![s].pc = "done"]
          ELSE Escape(s, text.ty)
    /\ UNCHANGED <<variants, before, pipelines_cache, pipelines, MODEL_CHOICES, loads>>

----------------------------------------------------------------------------
\* Variant 1: src/flask.py

\* index() of flask.py testing the text as sent, without strip()
Index1BeginNoStrip(s, method, ftask, ftext, flabels) ==
    /\ req[s].pc = "idle"
    /\ 1 \in variants
    /\ LET post == method = "POST"
           r == [Idle EXCEPT !.app = 1, !.method = method,
                             !.task = IF post THEN ftask ELSE SENTIMENT,
                             !.input_text = IF post THEN ftext ELSE <<>>,
                             !.candidate_labels = IF post THEN flabels ELSE <<>>]
       IN req' = [req EXCEPT ![s] =
                    IF post /\ ftext # <<>>
                    THEN [r EXCEPT !.pc = "check"]
                    ELSE [r EXCEPT !.pc = "done"]]
    /\ UNCHANGED <<variants, pipelines_cache, pipelines, MODEL_CHOICES, loads>>

\* index(), lines 30-40: defaults, form parsing, the non-empty test
Index1Begin(s, method, ftask, ftext, flabels) ==
    /\ req[s].pc = "idle"
    /\ 1 \in variants
    /\ LET post == method = "POST"
           r == [Idle EXCEPT !.app = 1, !.method = method,
                             !.task = IF post THEN ftask ELSE SENTIMENT,
                             !.input_text = IF post THEN ftext ELSE <<>>,
                             !.candidate_labels = IF post THEN flabels ELSE <<>>]
       IN req' = [req EXCEPT ![s] =
                    IF post /\ Strip(ftext) # <<>>
                    THEN [r EXCEPT !.pc = "check"]
                    ELSE [r EXCEPT !.pc = "done"]]
    /\ UNCHANGED <<variants, pipelines_cache, pipelines, MODEL_CHOICES, loads>>

\* get_pipeline() of flask.py without the membership test of line 16
GetPipeline1CheckAlwaysLoad(s) ==
    /\ req[s].pc = "check" /\ req[s].app = 1
    /\ req' = [req EXCEPT ![s].pc = IF req[s].task \in Tasks THEN "load" ELSE "return"]
    /\ UNCHANGED <<variants, before, pipelines_cache, pipelines, MODEL_CHOICES, loads>>

\* get_pipeline(), lines 16-25: the membership test and the choice of branch
GetPipeline1Check(s) ==
    /\ req[s].pc = "check" /\ req[s].app = 1
    /\ req' = [req EXCEPT ![s].pc =
                 IF req[s].task \notin DOMAIN pipelines_cache /\ req[s].task \in Tasks
                 THEN "load" ELSE "return"]
    /\ UNCHANGED <<variants, before, pipelines_cache, pipelines, MODEL_CHOICES, loads>>

\* get_pipeline(), lines 18-25: pipeline(task, model=<the task's model>)
GetPipeline1Load(s) ==
    /\ req[s].pc = "load" /\ req[s].app = 1
    /\ LET task == req[s].task IN
       \/ /\ loads' = [loads EXCEPT ![1][task] = @ + 1]
          /\ req' = [req EXCEPT
                       ![s].p = NewInst(task, DefaultModel(task), loads[1][task] + 1),
                       ![s].built = @ + 1, ![s].pc = "store"]
       \/ /\ req' = [req EXCEPT ![s].built = @ + 1, ![s].exc = "LoadError",
                                ![s].crash = "LoadError", ![s].pc = "done"]
          /\ UNCHANGED loads
    /\ UNCHANGED <<variants, before, pipelines_cache, pipelines, MODEL_CHOICES>>

\* get_pipeline() of flask.py rebuilding the dictionary around the new entry
GetPipeline1StoreSingleEntry(s) ==
    /\ req[s].pc = "store" /\ req[s].app = 1
    /\ pipelines_cache' = DictSet(EmptyDict, req[s].task, req[s].p)
    /\ req' = [req EXCEPT ![s].pc = "return"]
    /\ UNCHANGED <<variants, before, pipelines, MODEL_CHOICES, loads>>

\* get_pipeline(), lines 18-25: the assignment pipelines_cache[task] = ...
GetPipeline1Store(s) ==
    /\ req[s].pc = "store" /\ req[s].app = 1
    /\ pipelines_cache' = DictSet(pipelines_cache, req[s].task, req[s].p)
    /\ req' = [req EXCEPT ![s].pc = "return"]
    /\ UNCHANGED <<variants, before, pipelines, MODEL_CHOICES, loads>>

\* get_pipeline() of flask.py returning the entry stored first rather than
\* the entry of the task
GetPipeline1ReturnAnyEntry(s) ==
    /\ req[s].pc = "return" /\ req[s].app = 1
    /\ IF req[s].task \in DOMAIN pipelines_cache
       THEN \E k \in DOMAIN pipelines_cache :
               req' = [req EXCEPT ![s].nlp = pipelines_cache[k], ![s].pc = "run"]
       ELSE Escape(s, "KeyError")
    /\ UNCHANGED <<variants, before, pipelines_cache, pipelines, MODEL_CHOICES, loads>>

\* get_pipeline(), line 26: return pipelines_cache[task]
GetPipeline1Return(s) ==
    /\ req[s].pc = "return" /\ req[s].app = 1
    /\ IF req[s].task \in DOMAIN pipelines_cache
       THEN req' = [req EXCEPT ![s].nlp = pipelines_cache[req[s].task],
                               ![s].pc = "run"]
       ELSE Escape(s, "KeyError")
    /\ UNCHANGED <<variants, before, pipelines_cache, pipelines, MODEL_CHOICES, loads>>

\* index(), lines 42-48: the call by task; nothing catches what it raises
Index1Run(s) ==
    /\ req[s].pc = "run" /\ req[s].app = 1
    /\ LET task == req[s].task
           labels == ParseLabels(req[s].candidate_labels)
           call == CallFor(1, req[s].nlp, task, req[s].input_text, labels)
       IN IF task \notin Tasks THEN req' = [req EXCEPT ![s].pc = "done"]
          ELSE \/ req' = [req EXCEPT ![s].call = call, ![s].calls = @ + 1,
                                     ![s].result = "out", ![s].pc = "done"]
               \/ req' = [req EXCEPT ![s].call = call, ![s].calls = @ + 1,
                                     ![s].exc = "InferenceError",
                                     ![s].crash = "InferenceError", ![s].pc = "done"]
    /\ UNCHANGED <<variants, before, pipelines_cache, pipelines, MODEL_CHOICES, loads>>

----------------------------------------------------------------------------
\* Both variants

\* index(), flask.py:104-107 and flask2.py:167-174: the response leaves and
\* the worker is free again
Respond(s) ==
    /\ req[s].pc = "done"
    /\ req' = [req EXCEPT ![s] = Idle]
    /\ UNCHANGED <<variants, before, pipelines_cache, pipelines, MODEL_CHOICES, loads>>

AllIdle == \A w \in Workers : req[w].pc = "idle"

\* One process runs one of the two files.
Init ==
    /\ variants \in {{1}, {2}}
    /\ pipelines_cache = EmptyDict
    /\ pipelines = EmptyDict
    /\ MODEL_CHOICES = [t \in Tasks |-> DefaultModel(t)]
    /\ loads = [a \in {1, 2} |-> [t \in Tasks |-> 0]]
    /\ req = [w \in Workers |-> Idle]
    /\ before = [pipes |-> EmptyDict, models |-> EmptyDict]

\* Requests handled one after another: a request is taken when none is in flight.
Post1 ==
    /\ AllIdle
    /\ \E m \in Methods, ft \in TaskInputs, fx \in TextInputs, fl \in LabelInputs :
        /\ Index1Begin(1, m, ft, fx, fl)
        /\ before' = [pipes |-> pipelines_cache, models |-> MODEL_CHOICES]

Post2 ==
    /\ AllIdle
    /\ \E m \in Methods, ft \in TaskInputs, fx \in TextInputs, fl \in LabelInputs,
          fo \in OverrideInputs :
        /\ Index2Begin(1, m, ft, fx, fl, fo)
        /\ before' = [pipes |-> pipelines, models |-> MODEL_CHOICES]

Next ==
    \/ Post1
    \/ Post2
    \/ \E s \in Workers : GetPipeline1Check(s)
    \/ \E s \in Workers : GetPipeline1Load(s)
    \/ \E s \in Workers : GetPipeline1Store(s)
    \/ \E s \in Workers : GetPipeline1Return(s)
    \/ \E s \in Workers : Index1Run(s)
    \/ \E s \in Workers : Index2Override(s)
    \/ \E s \in Workers : GetPipeline2Check(s)
    \/ \E s \in Workers : GetPipeline2Lookup(s)
    \/ \E s \in Workers : GetPipeline2Load(s)
    \/ \E s \in Workers : GetPipeline2Store(s)
    \/ \E s \in Workers : Index2Run(s)
    \/ \E s \in Workers : Index2Except(s)
    \/ \E s \in Workers : Respond(s)

Spec == Init /\ [][Next]_vars

----------------------------------------------------------------------------
\* Requests handled concurrently (the development server starts a thread per
\* request): any free worker takes a request while others are in flight.
\* The inputs are the ones that reach get_pipeline.

ConcTasks == {SENTIMENT, "translation"}

ConcLabels == {<<"a", ",", "b">>}

ConcOverrides == {<<>>}

ConcPost1 ==
    \E s \in Workers, ft \in ConcTasks, fl \in ConcLabels :
        Index1Begin(s, "POST", ft, <<"a">>, fl) /\ UNCHANGED before

ConcPost2 ==
    \E s \in Workers, ft \in ConcTasks, fl \in ConcLabels, fo \in ConcOverrides :
        Index2Begin(s, "POST", ft, <<"a">>, fl, fo) /\ UNCHANGED before

NextConc ==
    \/ ConcPost1
    \/ ConcPost2
    \/ \E s \in Workers : GetPipeline1Check(s)
    \/ \E s \in Workers : GetPipeline1Load(s)
    \/ \E s \in Workers : GetPipeline1Store(s)
    \/ \E s \in Workers : GetPipeline1Return(s)
    \/ \E s \in Workers : Index1Run(s)
    \/ \E s \in Workers : Index2Override(s)
    \/ \E s \in Workers : GetPipeline2Check(s)
    \/ \E s \in Workers : GetPipeline2Lookup(s)
    \/ \E s \in Workers : GetPipeline2Load(s)
    \/ \E s \in Workers : GetPipeline2Store(s)
    \/ \E s \in Workers : Index2Run(s)
    \/ \E s \in Workers : Index2Except(s)
    \/ \E s \in Workers : Respond(s)

SpecConc == Init /\ [][NextConc]_vars

----------------------------------------------------------------------------
\* The two files run side by side, each in its own process with its own
\* dictionaries, and receive the same requests one after another: worker 1
\* is the process of flask.py, worker 2 the process of flask2.py. Every
\* request names a supported task and carries no model override; the import
\* and the construction of a pipeline succeed.

PairLabels == {<<>>, <<"a">>, <<" ", ",">>}

InitPair ==
    /\ variants = {1, 2}
    /\ pipelines_cache = EmptyDict
    /\ pipelines = EmptyDict
    /\ MODEL_CHOICES = [t \in Tasks |-> DefaultModel(t)]
    /\ loads = [a \in {1, 2} |-> [t \in Tasks |-> 0]]
    /\ req = [w \in Workers |-> Idle]
    /\ before = [pipes |-> EmptyDict, models |-> EmptyDict]

\* the next request arrives at flask.py
PairPost1 ==
    /\ AllIdle
    /\ \E m \in Methods, ft \in Tasks, fx \in TextInputs, fl \in PairLabels :
        Index1Begin(1, m, ft, fx, fl)
    /\ UNCHANGED before

\* the same request arrives at flask2.py
PairPost2 ==
    /\ req[1].pc # "idle"
    /\ Index2Begin(2, req[1].method, req[1].task, req[1].input_text,
                   req[1].candidate_labels, <<>>)
    /\ UNCHANGED before

\* both responses left: the request is over
PairRespond ==
    /\ req[1].pc = "done" /\ req[2].pc = "done"
    /\ req' = [w \in Workers |-> Idle]
    /\ UNCHANGED <<variants, before, pipelines_cache, pipelines, MODEL_CHOICES, loads>>

NextPair ==
    \/ PairPost1
    \/ PairPost2
    \/ \E s \in Workers : GetPipeline1Check(s)
    \/ \E s \in Workers : GetPipeline1Load(s) /\ req'[s].exc = NoExc
    \/ \E s \in Workers : GetPipeline1Store(s)
    \/ \E s \in Workers : GetPipeline1Return(s)
    \/ \E s \in Workers : Index1Run(s)
    \/ \E s \in Workers : Index2Override(s)
    \/ \E s \in Workers : GetPipeline2Check(s) /\ req'[s].exc = NoExc
    \/ \E s \in Workers : GetPipeline2Lookup(s)
    \/ \E s \in Workers : GetPipeline2Load(s) /\ req'[s].exc = NoExc
    \/ \E s \in Workers : GetPipeline2Store(s)
    \/ \E s \in Workers : Index2Run(s)
    \/ \E s \in Workers : Index2Except(s)
    \/ PairRespond

SpecPair == InitPair /\ [][NextPair]_vars

----------------------------------------------------------------------------
\* Vocabulary of the properties

EmptyTextError == <<"Please provide some input text.">>

Done(s) == req[s].pc = "done"

Posted(s) == req[s].pc # "idle" /\ req[s].method = "POST"

\* the text the client sent is not empty after trimming
HasText(s) == \E i \in 1..Len(req[s].input_text) : req[s].input_text[i] # " "

\* the labels field holds something besides commas and whitespace
HasLabel(s) ==
    \E i \in 1..Len(req[s].candidate_labels) : req[s].candidate_labels[i] \notin {",", " "}

\* the response is a rendered page carrying an error text
RenderedError(s) == req[s].crash = NoExc /\ req[s].error # <<>>

\* the response is a rendered page carrying a result and no error
RenderedResult(s) == req[s].crash = NoExc /\ req[s].error = <<>> /\ req[s].result = "out"

Present(a, t) == t \in DOMAIN Cache(a)

\* what the code raises for a task that is not one of the three
UnknownTaskErrors == {"UnknownTask", "UnsupportedTaskLoad", "UnsupportedTask", "KeyError"}

\* the keys the task-to-model table can hold
TableKeys == Tasks \cup {"translation"}

----------------------------------------------------------------------------
\* C1: with requests handled one after another, in both variants a task's
\* pipeline is constructed at most once; once a task has a cache entry the entry
\* is never removed or replaced and nothing more is constructed for the task; and
\* a request that holds or has invoked a pipeline holds the cached instance of
\* its task.
C1_LoadedOnce ==
    [][\A a \in {1, 2}, t \in Tasks :
          /\ loads'[a][t] <= 1
          /\ Present(a, t) =>
                /\ Present(a, t)'
                /\ Cache(a)'[t] = Cache(a)[t]
                /\ loads'[a][t] = loads[a][t]
          /\ \A s \in Workers :
                (req'[s].app = a /\ req'[s].task = t /\ req'[s].nlp # NoInst) =>
                    /\ Present(a, t)'
                    /\ req'[s].nlp = Cache(a)'[t]
                    /\ req'[s].calls > 0 => req'[s].call.inst = Cache(a)'[t]
      ]_vars

\* C1 witness: a request with a model override got its result from an instance
\* that an earlier request had constructed.
C1_Witness ==
    \E s \in Workers :
        /\ Done(s) /\ req[s].app = 2 /\ req[s].model_override # <<>>
        /\ req[s].result = "out" /\ req[s].built = 0
        /\ loads[2][req[s].task] = 1
        /\ req[s].call.inst = pipelines[req[s].task]

\* C2: a POST whose text is empty or whitespace-only ends with the 'please
\* provide input' error in the response and makes no inference call.
C2_EmptyTextError ==
    \A s \in Workers :
        (Done(s) /\ Posted(s) /\ ~HasText(s)) =>
            /\ req[s].crash = NoExc
            /\ req[s].error = EmptyTextError
            /\ req[s].calls = 0

\* C3: a POST with non-empty text and a task outside the three supported ones
\* ends with a rendered error, never with an exception leaving the handler.
C3_UnknownTaskRendered ==
    \A s \in Workers :
        (Done(s) /\ Posted(s) /\ HasText(s) /\ req[s].task \notin Tasks) =>
            RenderedError(s)

\* C4: a zero-shot POST with non-empty text whose labels field holds only commas
\* and whitespace ends in an error and never invokes the pipeline.
C4_NoLabelsNoInference ==
    \A s \in Workers :
        (Done(s) /\ Posted(s) /\ HasText(s) /\ req[s].task = ZEROSHOT /\ ~HasLabel(s)) =>
            /\ req[s].calls = 0
            /\ req[s].result = NoneV
            /\ req[s].crash # NoExc \/ req[s].error # <<>>

\* the request ended after an unknown-task error, a load failure or an
\* inference exception
Failed(s) ==
    Done(s) /\ req[s].exc \in UnknownTaskErrors \cup {"LoadError", "InferenceError"}

C6_ExceptionRendered ==
    \A s \in Workers :
        (Done(s) /\ req[s].app = 2 /\ req[s].exc # NoExc) =>
            /\ RenderedError(s)
            /\ Head(req[s].error) = req[s].exc

\* C7 as stated: for a supported task and non-empty text, when the external
\* library raises nothing, the request ends with a result and no error whatever
\* the other fields are.
C7_ResultWhateverFields ==
    \A s \in Workers :
        (Done(s) /\ Posted(s) /\ HasText(s) /\ req[s].task \in Tasks
            /\ req[s].exc \notin External) =>
            RenderedResult(s)

\* C7 amended: the same, provided a zero-shot request carries at least one
\* non-empty label.
C7_ResultGivenLabels ==
    \A s \in Workers :
        (Done(s) /\ Posted(s) /\ HasText(s) /\ req[s].task \in Tasks
            /\ req[s].exc \notin External
            /\ (req[s].task = ZEROSHOT => HasLabel(s))) =>
            RenderedResult(s)

\* C7 witness: a zero-shot request with labels and a model override ended with
\* a result.
C7_Witness ==
    \E s \in Workers :
        /\ Done(s) /\ Posted(s) /\ HasText(s) /\ req[s].app = 2
        /\ req[s].task = ZEROSHOT /\ HasLabel(s) /\ req[s].model_override # <<>>
        /\ RenderedResult(s)

\* an instance a worker holds was constructed for the worker's task and differs
\* from the cached one only after a second construction
C8_HeldInstances ==
    /\ \A s \in Workers :
          req[s].nlp # NoInst =>
              /\ Present(req[s].app, req[s].task)
              /\ req[s].nlp.task = req[s].task
              /\ req[s].nlp.id \in 1..loads[req[s].app][req[s].task]
              /\ req[s].nlp # Cache(req[s].app)[req[s].task] =>
                     loads[req[s].app][req[s].task] >= 2
    /\ \A a \in {1, 2}, t \in Tasks : loads[a][t] <= MaxInflight

\* C8: with concurrent requests, a worker's store puts its own instance under
\* the task whatever was there (the last store wins); an instance a worker holds
\* was constructed for its task, and it differs from the cached one only after
\* the task was constructed at least twice; a task is constructed at most once
\* per worker that can be in flight.
C8_RaceOutcome ==
    [][/\ \A s \in Workers :
            (req[s].pc = "store" /\ req'[s].pc # "store") =>
                /\ Present(req[s].app, req[s].task)'
                /\ Cache(req[s].app)'[req[s].task] = req[s].p
       /\ C8_HeldInstances'
      ]_vars

\* C8 witness: one task constructed twice, the cache holds the instance stored
\* last, and a request has run inference on the other one.
C8_Witness ==
    \E s \in Workers :
        /\ req[s].calls = 1
        /\ loads[req[s].app][req[s].task] = 2
        /\ Present(req[s].app, req[s].task)
        /\ req[s].call.inst # Cache(req[s].app)[req[s].task]
        /\ Cache(req[s].app)[req[s].task].id = 2
        /\ req[s].call.inst.id = 1

\* the table entry of a task changes only in the override step of a request for
\* that task, and then to that request's override
C9_TableFollowsOverride ==
    /\ \A t \in TableKeys :
          DictGet(MODEL_CHOICES', t) # DictGet(MODEL_CHOICES, t) =>
              \E s \in Workers :
                  /\ req[s].pc = "override" /\ req[s].task = t
                  /\ req[s].model_override # <<>>
                  /\ DictGet(MODEL_CHOICES', t) = req[s].model_override
    /\ \A s \in Workers :
          (req[s].pc = "override" /\ req'[s].pc # "override"
              /\ req[s].model_override # <<>>) =>
              DictGet(MODEL_CHOICES', req[s].task) = req[s].model_override

\* a request of the second variant that constructs a pipeline constructs it
\* from the model the table maps its task to
C9_LoadsTableModel ==
    \A s \in Workers :
        (req[s].app = 2 /\ req[s].pc = "load" /\ req'[s].pc # "load") =>
            /\ req[s].model = DictGet(MODEL_CHOICES, req[s].task)
            /\ req'[s].pc = "store" => req'[s].p.model = DictGet(MODEL_CHOICES, req[s].task)

\* a request without override that has run inference ran it on a pipeline of
\* the model the table maps its task to
C9_ServedByTableModel ==
    \A s \in Workers :
        (req[s].app = 2 /\ req[s].model_override = <<>> /\ req[s].calls = 1) =>
            req[s].call.inst.model = DictGet(MODEL_CHOICES, req[s].task)

\* a request that has run inference ran it on the instance cached for its task
C9_ServedByCache ==
    \A s \in Workers :
        (req[s].app = 2 /\ req[s].calls = 1) =>
            /\ Present(2, req[s].task)
            /\ req[s].call.inst = pipelines[req[s].task]

\* C9 as stated: an override M for task T stays in the table until another
\* override for T, and later requests for T without override are served by
\* model M, or attempt to load M when T is uncached.
C9_OverridePersistsAndServes ==
    [][C9_TableFollowsOverride /\ C9_LoadsTableModel /\ C9_ServedByTableModel']_vars

\* C9 amended: an override M for task T stays in the table until another
\* override for T; a later request for T that finds T uncached attempts to load
\* M; one that finds T cached is served by the cached instance, whatever model
\* it was built from.
C9_OverridePersists ==
    [][C9_TableFollowsOverride /\ C9_LoadsTableModel /\ C9_ServedByCache']_vars

\* C9 witness: a request without override constructed its task's pipeline from
\* the override an earlier request had left in the table, and got a result.
C9_Witness ==
    \E s \in Workers :
        /\ Done(s) /\ req[s].app = 2 /\ req[s].model_override = <<>>
        /\ req[s].built = 1 /\ req[s].result = "out"
        /\ req[s].call.inst.model = <<"M">>
        /\ MODEL_CHOICES[req[s].task] = <<"M">>

\* C10: in the second variant a request with a model override for a task that
\* was cached when the request was taken constructs nothing, never enters the
\* load path, leaves the task's cache entry as it was, and holds and invokes the
\* instance that was stored.
C10_OverrideHitsCache ==
    \A s \in Workers :
        (req[s].app = 2 /\ req[s].pc # "idle" /\ req[s].model_override # <<>>
            /\ req[s].task \in DOMAIN before.pipes) =>
            /\ req[s].built = 0
            /\ req[s].pc \notin {"lookup", "load", "store"}
            /\ req[s].task \in DOMAIN pipelines
            /\ pipelines[req[s].task] = before.pipes[req[s].task]
            /\ req[s].nlp \in {NoInst, before.pipes[req[s].task]}
            /\ req[s].pc = "run" => req[s].nlp = before.pipes[req[s].task]
            /\ req[s].calls = 1 => req[s].call.inst = before.pipes[req[s].task]

\* C10 witness: a request with override M got its result from the cached
\* instance, which was built from the task's default model.
C10_Witness ==
    \E s \in Workers :
        /\ Done(s) /\ req[s].app = 2 /\ req[s].model_override = <<"M">>
        /\ req[s].task \in DOMAIN before.pipes
        /\ req[s].result = "out"
        /\ req[s].call.inst = before.pipes[req[s].task]
        /\ req[s].call.inst.model = DefaultModel(req[s].task)

----------------------------------------------------------------------------
\* Vocabulary of the label list

IsLabelChar(c) == c \notin {",", " "}

\* position i of string l starts a piece that is kept: a label character with
\* only whitespace between it and the comma (or the start) before it
StartsLabel(l, i) ==
    /\ IsLabelChar(l[i])
    /\ \E j \in 0..(i - 1) :
          /\ j = 0 \/ l[j] = ","
          /\ \A k \in (j + 1)..(i - 1) : l[k] = " "

\* the characters of l that belong to no comma and no whitespace, in order
RECURSIVE LabelChars(_)
LabelChars(l) ==
    IF l = <<>> THEN <<>>
    ELSE IF IsLabelChar(Head(l)) THEN <<Head(l)>> \o LabelChars(Tail(l))
    ELSE LabelChars(Tail(l))

RECURSIVE Concat(_)
Concat(ls) == IF ls = <<>> THEN <<>> ELSE Head(ls) \o Concat(Tail(ls))

\* the list is the trimmed non-empty comma-separated pieces of the field, in
\* their order
SplitTrimDrop(field, labels) ==
    /\ \A i \in 1..Len(labels) :
          /\ labels[i] # <<>>
          /\ labels[i][1] # " " /\ labels[i][Len(labels[i])] # " "
          /\ \A k \in 1..Len(labels[i]) : labels[i][k] # ","
    /\ Len(labels) = Cardinality({i \in 1..Len(field) : StartsLabel(field, i)})
    /\ LabelChars(Concat(labels)) = LabelChars(field)

\* a zero-shot inference call has been made by worker s
ZeroShotCalled(s) == req[s].calls = 1 /\ req[s].task = ZEROSHOT

\* C11 as stated: the label list passed to zero-shot inference is the trimmed
\* non-empty pieces of the labels field in their order, and holds no label
\* twice.
C11_LabelsDeduplicated ==
    \A s \in Workers :
        ZeroShotCalled(s) =>
            /\ SplitTrimDrop(req[s].candidate_labels, req[s].call.labels)
            /\ \A i, j \in 1..Len(req[s].call.labels) :
                  i # j => req[s].call.labels[i] # req[s].call.labels[j]

\* C11 amended: the label list passed to zero-shot inference is the trimmed
\* non-empty pieces of the labels field in their order; a label that occurs
\* twice in the field occurs twice in the list.
C11_LabelsSplitTrimmed ==
    \A s \in Workers :
        ZeroShotCalled(s) =>
            SplitTrimDrop(req[s].candidate_labels, req[s].call.labels)

\* C11 witness: a zero-shot call received the label "a" twice, from the field
\* "a,a".
C11_Witness ==
    \E s \in Workers :
        /\ ZeroShotCalled(s)
        /\ req[s].candidate_labels = <<"a", ",", "a">>
        /\ req[s].call.labels = << <<"a">>, <<"a">> >>

\* the call of worker s follows the convention of its task:
\* flask.py:43,45,48 and flask2.py:149,152,157
ConventionOf(s) ==
    LET c == req[s].call IN
    /\ c.text = req[s].input_text
    /\ req[s].task = SENTIMENT =>
          /\ c.conv = "text" /\ c.labels = <<>>
          /\ c.max_length = 0 /\ c.min_length = 0
    /\ req[s].task = SUMMARIZATION =>
          /\ c.conv = "bounded" /\ c.labels = <<>>
          /\ c.max_length = (IF req[s].app = 1 THEN 80 ELSE 120)
          /\ c.min_length = 20
          /\ c.do_sample = FALSE
    /\ req[s].task = ZEROSHOT =>
          /\ c.conv = "labels"
          /\ c.max_length = 0 /\ c.min_length = 0
          /\ SplitTrimDrop(req[s].candidate_labels, c.labels)

\* C12: in both variants the pipeline a request invokes was constructed for the
\* request's task, and the call follows the task's convention: text only for
\* sentiment-analysis, text with the fixed length bounds and sampling off for
\* summarization, text with the parsed label list for zero-shot-classification.
C12_OwnPipelineOwnConvention ==
    \A s \in Workers :
        req[s].calls > 0 =>
            /\ req[s].task \in Tasks
            /\ req[s].call.inst # NoInst
            /\ req[s].call.inst.task = req[s].task
            /\ req[s].call.inst.id \in 1..loads[req[s].app][req[s].task]
            /\ ConventionOf(s)

\* C12 witness: with the pipelines of the two other tasks cached, a
\* summarization request of the first variant invoked the summarization
\* pipeline with the length bounds.
C12_Witness ==
    \E s \in Workers :
        /\ Done(s) /\ req[s].app = 1 /\ req[s].task = SUMMARIZATION
        /\ req[s].calls = 1 /\ req[s].result = "out"
        /\ DOMAIN pipelines_cache = Tasks
        /\ req[s].call.inst.task = SUMMARIZATION
        /\ req[s].call.max_length = 80 /\ req[s].call.min_length = 20

\* the request of worker s got a pipeline from get_pipeline()
GotPipeline(s) == req[s].pc \in {"store", "run"} \/ req[s].calls > 0

\* C13: a request makes at most one construction attempt and at most one
\* inference call; when the construction raises, the cache is the one the
\* request found and holds nothing for the task; a request that finds no entry
\* for its task gets a pipeline only through a construction attempt of its own.
C13_NoRetry ==
    \A s \in Workers :
        /\ req[s].built <= 1
        /\ req[s].calls <= 1
        /\ req[s].exc = "LoadError" =>
              /\ req[s].built = 1
              /\ req[s].calls = 0
              /\ req[s].task \notin DOMAIN Cache(req[s].app)
              /\ Cache(req[s].app) = before.pipes
        /\ GotPipeline(s) /\ req[s].task \notin DOMAIN before.pipes =>
              req[s].built = 1

\* C13 witness: with another task cached, a request of the second variant
\* ended on a failed construction, its single attempt.
C13_Witness ==
    \E s \in Workers :
        /\ Done(s) /\ req[s].app = 2 /\ req[s].exc = "LoadError"
        /\ req[s].built = 1
        /\ pipelines # EmptyDict
        /\ req[s].task \notin DOMAIN pipelines

\* C14: in every reachable state of either variant the keys of the pipeline
\* cache are among the three supported tasks, whatever task strings and model
\* overrides the requests carried.
C14_CacheKeysSupported ==
    /\ DOMAIN pipelines_cache \subseteq Tasks
    /\ DOMAIN pipelines \subseteq Tasks
    /\ \A t \in DOMAIN pipelines_cache : pipelines_cache[t].task = t
    /\ \A t \in DOMAIN pipelines : pipelines[t].task = t

\* C14 witness: a request of the second variant named an unknown task with a
\* model override; the table has the model under the unknown task, the cache
\* has no entry for it.
C14_Witness ==
    \E s \in Workers :
        /\ Done(s) /\ req[s].app = 2
        /\ req[s].task = "translation"
        /\ req[s].model_override = <<"M">>
        /\ DictGet(MODEL_CHOICES, "translation") = <<"M">>
        /\ req[s].exc = "UnsupportedTaskLoad"
        /\ "translation" \notin DOMAIN pipelines

\* the request of worker s is a GET, or a POST whose text is empty or blank
NothingToRun(s) ==
    /\ req[s].pc # "idle"
    /\ req[s].method = "GET" \/ Strip(req[s].input_text) = <<>>

\* C15: a GET request, and a POST whose input text is empty or only
\* whitespace, ends at once with the pipeline cache and the task-to-model table
\* as it found them, no pipeline constructed and none called, also when the
\* POST carries a model override.
C15_NothingToRunNoEffect ==
    \A s \in Workers :
        NothingToRun(s) =>
            /\ req[s].pc = "done"
            /\ Cache(req[s].app) = before.pipes
            /\ MODEL_CHOICES = before.models
            /\ req[s].built = 0
            /\ req[s].calls = 0

\* C15 witness: a POST of the second variant with blank text and the model
\* override "M" for zero-shot-classification ended; the table still has the
\* default model of the task.
C15_Witness ==
    \E s \in Workers :
        /\ Done(s) /\ req[s].app = 2 /\ req[s].method = "POST"
        /\ req[s].input_text = <<>>
        /\ req[s].task = ZEROSHOT
        /\ req[s].model_override = <<"M">>
        /\ MODEL_CHOICES[ZEROSHOT] = DefaultModel(ZEROSHOT)
        /\ MODEL_CHOICES = before.models

\* C16: in the second variant a request for task T changes at most the table
\* entry of T: every other key has the entry it had when the request arrived
\* (an absent key stays absent), and a request without a model override leaves
\* the whole table as it was.
C16_OnlyOwnEntryChanges ==
    \A s \in Workers :
        req[s].app = 2 /\ req[s].pc # "idle" =>
            /\ \A t \in (DOMAIN MODEL_CHOICES \cup DOMAIN before.models) \ {req[s].task} :
                  /\ t \in DOMAIN MODEL_CHOICES
                  /\ t \in DOMAIN before.models
                  /\ MODEL_CHOICES[t] = before.models[t]
            /\ req[s].model_override = <<>> => MODEL_CHOICES = before.models

\* C16 witness: a zero-shot-classification request with the override "M" ended;
\* the entry of its task changed to "M", the two other entries are the ones
\* found.
C16_Witness ==
    \E s \in Workers :
        /\ Done(s) /\ req[s].app = 2 /\ req[s].task = ZEROSHOT
        /\ req[s].model_override = <<"M">>
        /\ MODEL_CHOICES[ZEROSHOT] = <<"M">>
        /\ before.models[ZEROSHOT] # <<"M">>
        /\ MODEL_CHOICES[SENTIMENT] = before.models[SENTIMENT]
        /\ MODEL_CHOICES[SUMMARIZATION] = before.models[SUMMARIZATION]

\* C17: the two variants, side by side on the same sequential requests that
\* name supported tasks and carry no override, with constructions succeeding:
\* once both have answered a request, and between requests, the first
\* variant's cache and the second variant's cache hold the same set of tasks.
C17_SameTasksCached ==
    AllIdle \/ (Done(1) /\ Done(2)) =>
        DOMAIN pipelines_cache = DOMAIN pipelines

\* C17 witness: both variants answered a zero-shot-classification request
\* without labels, the first by calling the pipeline, the second by raising;
\* both hold the zero-shot pipeline and that of an earlier request.
C17_Witness ==
    /\ Done(1) /\ Done(2)
    /\ req[1].task = ZEROSHOT /\ req[2].task = ZEROSHOT
    /\ req[1].calls = 1
    /\ req[2].exc = "NoLabels"
    /\ DOMAIN pipelines_cache = {SENTIMENT, ZEROSHOT}
    /\ DOMAIN pipelines = {SENTIMENT, ZEROSHOT}

====
